---- MODULE Spec2Model ----
(***************************************************************************)
(* Model of the signaling relay in src/app.py: the three Socket.IO event   *)
(* handlers (connect, disconnect, signal), the connected_users dictionary  *)
(* and the membership of the single room 'chat_room'.                      *)
(*                                                                         *)
(* The room is kept the way the Socket.IO manager keeps it: an insertion-  *)
(* ordered dictionary keyed by sid, modelled as a sequence of sids.  An    *)
(* emit walks that dictionary in order and produces one send per entry.    *)
(***************************************************************************)
EXTENDS Integers, Sequences, FiniteSets, TLC

\* Number of distinct session ids the transport can hand to the handlers.
NumSids == 3

SIDS == 1..NumSids

\* Number of signal events followed per behaviour when the order of the
\* deliveries is recorded.
MaxSignals == 2

\* Python's None, as the value of message.get('type') for a missing key.
None == "None"

\* Messages a client can put on the 'signal' event.  A JSON object arrives as
\* a dict, anything else (here a JSON array) arrives as a non-dict value.
Messages ==
    { [kind |-> "dict", type |-> "offer", body |-> "sdp"],
      [kind |-> "dict", type |-> None,    body |-> "candidate"],
      [kind |-> "list", type |-> None,    body |-> "sdp"] }

VARIABLES
    connected_users,  \* dict sid -> user info
    chat_room,        \* members of room 'chat_room', in insertion order
    sent,             \* the sends issued by the handler that ran last
    error,            \* the exception that handler raised, or "none"
    ev,               \* the event that handler was invoked for
    lifecycle,        \* per sid: "new", "connected" or "disconnected"
    pre,              \* the state as that handler found it
    clock,            \* number of signal events handled so far
    inbox             \* per sid: the 'signal' sends addressed to it, oldest first

vars == <<connected_users, chat_room, sent, error, ev, lifecycle, pre,
          clock, inbox>>

----------------------------------------------------------------------------
\* Library calls made by the handlers.

Range(s) == { s[i] : i \in 1..Len(s) }

\* join_room('chat_room') for the sid of the request: a dictionary store, so
\* an sid already in the room keeps its single entry.
join_room_twice(room, sid) == Append(room, sid)

join_room(room, sid) ==
    IF sid \in Range(room) THEN room ELSE Append(room, sid)

\* leave_room('chat_room') for the sid of the request: deletes the entry if
\* there is one, and does nothing otherwise.
leave_room_noop(room, sid) == room

\* The entry is deleted by position, and the position of an absent sid is
\* taken to be the last one.
leave_room_last(room, sid) ==
    IF sid \in Range(room)
    THEN SelectSeq(room, LAMBDA s : s # sid)
    ELSE SubSeq(room, 1, Len(room) - 1)

leave_room(room, sid) == SelectSeq(room, LAMBDA s : s # sid)

\* The sids an emit to the room reaches: every member but those skipped.
members_except(room, skip) == SelectSeq(room, LAMBDA s : s \notin skip)

\* emit(event, data, room='chat_room', skip_sid=...): one send per target.
emit_strip(event, data, room, skip) ==
    LET targets == members_except(room, skip)
    IN  [ i \in 1..Len(targets) |->
            [to |-> targets[i], event |-> event,
             data |-> IF "type" \in DOMAIN data
                      THEN [data EXCEPT !.type = None] ELSE data] ]

emit(event, data, room, skip) ==
    LET targets == members_except(room, skip)
    IN  [ i \in 1..Len(targets) |->
            [to |-> targets[i], event |-> event, data |-> data] ]

\* message.get('type'): defined on a dict only.
HasGet(message) == message.kind = "dict"

----------------------------------------------------------------------------
Init ==
    /\ connected_users = << >>
    /\ chat_room = << >>
    /\ sent = << >>
    /\ error = "none"
    /\ ev = [op |-> "start", sid |-> CHOOSE s \in SIDS : TRUE,
             message |-> [kind |-> "none"]]
    /\ lifecycle = [s \in SIDS |-> "new"]
    /\ pre = [users |-> << >>, room |-> << >>,
              lifecycle |-> [s \in SIDS |-> "new"],
              op |-> "start", sid |-> CHOOSE s \in SIDS : TRUE,
              sent |-> << >>]
    /\ clock = 0
    /\ inbox = [s \in SIDS |-> << >>]

Snapshot ==
    [users |-> connected_users, room |-> chat_room, lifecycle |-> lifecycle,
     op |-> ev.op, sid |-> ev.sid, sent |-> sent]

NoMessage == [kind |-> "none"]

\* connected_users[sid] = {"sid": sid}
Register_rebind(users, sid) == [ s \in {sid} |-> [sid |-> sid] ]

Register(users, sid) ==
    [ s \in (DOMAIN users) \cup {sid} |->
        IF s = sid THEN [sid |-> sid] ELSE users[s] ]

\* if sid in connected_users: del connected_users[sid]
Unregister_noop(users, sid) == users

Unregister(users, sid) ==
    [ s \in (DOMAIN users) \ {sid} |-> users[s] ]

\* The registration rejects a sid that is already a key of connected_users.
handle_connect_raises(sid) ==
    /\ ev' = [op |-> "connect", sid |-> sid, message |-> NoMessage]
    /\ lifecycle' = [lifecycle EXCEPT ![sid] = "connected"]
    /\ pre' = Snapshot
    /\ sent' = << >>
    /\ IF sid \in DOMAIN connected_users
       THEN /\ error' = "DuplicateConnectionError"
            /\ UNCHANGED <<connected_users, chat_room>>
       ELSE /\ error' = "none"
            /\ connected_users' = Register(connected_users, sid)
            /\ chat_room' = join_room(chat_room, sid)

\* The handler also announces the new sid to the other members of the room.
handle_connect_announce(sid) ==
    /\ connected_users' = Register(connected_users, sid)
    /\ chat_room' = join_room(chat_room, sid)
    /\ sent' = emit("user-joined", [sid |-> sid], chat_room', {sid})
    /\ error' = "none"
    /\ ev' = [op |-> "connect", sid |-> sid, message |-> NoMessage]
    /\ lifecycle' = [lifecycle EXCEPT ![sid] = "connected"]
    /\ pre' = Snapshot

\* The handler registers the sid and does not join it to the room.
handle_connect_nojoin(sid) ==
    /\ connected_users' = Register(connected_users, sid)
    /\ sent' = << >>
    /\ error' = "none"
    /\ ev' = [op |-> "connect", sid |-> sid, message |-> NoMessage]
    /\ lifecycle' = [lifecycle EXCEPT ![sid] = "connected"]
    /\ pre' = Snapshot
    /\ UNCHANGED chat_room

handle_connect(sid) ==
    /\ connected_users' = Register(connected_users, sid)
    /\ chat_room' = join_room(chat_room, sid)
    /\ sent' = << >>
    /\ error' = "none"
    /\ ev' = [op |-> "connect", sid |-> sid, message |-> NoMessage]
    /\ lifecycle' = [lifecycle EXCEPT ![sid] = "connected"]
    /\ pre' = Snapshot

\* The broadcast is addressed to the sid of the request instead of the room.
handle_disconnect_unicast(sid) ==
    /\ connected_users' = Unregister(connected_users, sid)
    /\ chat_room' = leave_room(chat_room, sid)
    /\ sent' = << [to |-> sid, event |-> "user-left", data |-> [sid |-> sid]] >>
    /\ error' = "none"
    /\ ev' = [op |-> "disconnect", sid |-> sid, message |-> NoMessage]
    /\ lifecycle' = [lifecycle EXCEPT ![sid] = "disconnected"]
    /\ pre' = Snapshot

\* The broadcast is issued before the sid leaves the room.
handle_disconnect_early(sid) ==
    /\ connected_users' = Unregister(connected_users, sid)
    /\ chat_room' = leave_room(chat_room, sid)
    /\ sent' = emit("user-left", [sid |-> sid], chat_room, {})
    /\ error' = "none"
    /\ ev' = [op |-> "disconnect", sid |-> sid, message |-> NoMessage]
    /\ lifecycle' = [lifecycle EXCEPT ![sid] = "disconnected"]
    /\ pre' = Snapshot

\* The del is not guarded by the membership test: KeyError on an absent sid.
handle_disconnect_unguarded(sid) ==
    /\ ev' = [op |-> "disconnect", sid |-> sid, message |-> NoMessage]
    /\ lifecycle' = [lifecycle EXCEPT ![sid] = "disconnected"]
    /\ pre' = Snapshot
    /\ IF sid \in DOMAIN connected_users
       THEN /\ connected_users' = Unregister(connected_users, sid)
            /\ chat_room' = leave_room(chat_room, sid)
            /\ sent' = emit("user-left", [sid |-> sid], chat_room', {})
            /\ error' = "none"
       ELSE /\ sent' = << >>
            /\ error' = "KeyError"
            /\ UNCHANGED <<connected_users, chat_room>>

\* The broadcast is issued only for a sid that was still registered.
handle_disconnect_once(sid) ==
    /\ connected_users' = Unregister(connected_users, sid)
    /\ chat_room' = leave_room(chat_room, sid)
    /\ sent' = IF sid \in DOMAIN connected_users
               THEN emit("user-left", [sid |-> sid], chat_room', {})
               ELSE << >>
    /\ error' = "none"
    /\ ev' = [op |-> "disconnect", sid |-> sid, message |-> NoMessage]
    /\ lifecycle' = [lifecycle EXCEPT ![sid] = "disconnected"]
    /\ pre' = Snapshot

handle_disconnect(sid) ==
    /\ connected_users' = Unregister(connected_users, sid)
    /\ chat_room' = leave_room(chat_room, sid)
    /\ sent' = emit("user-left", [sid |-> sid], chat_room', {})
    /\ error' = "none"
    /\ ev' = [op |-> "disconnect", sid |-> sid, message |-> NoMessage]
    /\ lifecycle' = [lifecycle EXCEPT ![sid] = "disconnected"]
    /\ pre' = Snapshot

\* The exception handle_signal raises on the message, or "none":
\* message.get('type') raises AttributeError on a non-dict message.
signal_error(message) ==
    IF HasGet(message) THEN "none" ELSE "AttributeError"

\* The sends handle_signal issues: the emit is reached only when the log
\* line before it did not raise.
signal_sends(room, sid, message) ==
    IF signal_error(message) = "none"
    THEN emit("signal", message, room, {sid})
    ELSE << >>

\* The message is wrapped together with the sid of its sender.
handle_signal_tagged(sid, message) ==
    /\ sent' = IF signal_error(message) = "none"
               THEN emit("signal", [sid |-> sid, message |-> message],
                         chat_room, {sid})
               ELSE << >>
    /\ error' = signal_error(message)
    /\ ev' = [op |-> "signal", sid |-> sid, message |-> message]
    /\ pre' = Snapshot
    /\ UNCHANGED <<connected_users, chat_room, lifecycle>>

\* The handler also (re-)registers the sender and joins it to the room.
handle_signal_join(sid, message) ==
    /\ sent' = signal_sends(chat_room, sid, message)
    /\ error' = signal_error(message)
    /\ ev' = [op |-> "signal", sid |-> sid, message |-> message]
    /\ pre' = Snapshot
    /\ connected_users' = Register(connected_users, sid)
    /\ chat_room' = join_room(chat_room, sid)
    /\ UNCHANGED lifecycle

handle_signal(sid, message) ==
    /\ sent' = signal_sends(chat_room, sid, message)
    /\ error' = signal_error(message)
    /\ ev' = [op |-> "signal", sid |-> sid, message |-> message]
    /\ pre' = Snapshot
    /\ UNCHANGED <<connected_users, chat_room, lifecycle>>

Next ==
    \/ \E sid \in SIDS : handle_connect(sid) /\ UNCHANGED <<clock, inbox>>
    \/ \E sid \in SIDS : handle_disconnect(sid) /\ UNCHANGED <<clock, inbox>>
    \/ \E sid \in SIDS, message \in Messages :
          handle_signal(sid, message) /\ UNCHANGED <<clock, inbox>>

Spec == Init /\ [][Next]_vars

----------------------------------------------------------------------------
\* The same handlers, with the sends of each signal event recorded per target
\* in the order in which the emit calls issue them.  The n-th signal event
\* handled is stamped n.

deliver_front(box, sends, sid, n) ==
    [ t \in DOMAIN box |->
        LET mine == SelectSeq(sends, LAMBDA x : x.to = t)
        IN  [ i \in 1..Len(mine) |-> [from |-> sid, n |-> n] ] \o box[t] ]

deliver(box, sends, sid, n) ==
    [ t \in DOMAIN box |->
        LET mine == SelectSeq(sends, LAMBDA x : x.to = t)
        IN  box[t] \o [ i \in 1..Len(mine) |-> [from |-> sid, n |-> n] ] ]

SignalRecorded(sid, message) ==
    /\ clock < MaxSignals
    /\ handle_signal(sid, message)
    /\ clock' = clock + 1
    /\ inbox' = deliver(inbox, sent', sid, clock')

NextOrder ==
    \/ \E sid \in SIDS : handle_connect(sid) /\ UNCHANGED <<clock, inbox>>
    \/ \E sid \in SIDS : handle_disconnect(sid) /\ UNCHANGED <<clock, inbox>>
    \/ \E sid \in SIDS, message \in Messages : SignalRecorded(sid, message)

SpecOrder == Init /\ [][NextOrder]_vars

----------------------------------------------------------------------------
\* Vocabulary of the properties.

\* How many sends of the last handler carried the event to target t.
Received(t, event) ==
    Cardinality({ i \in DOMAIN sent : sent[i].to = t /\ sent[i].event = event })

Members(room) == Range(room)

Others(room, sid) == Members(room) \ {sid}

\* The last handler ran for a signal event.
IsSignal == ev.op = "signal"

IsConnect == ev.op = "connect"

IsDisconnect == ev.op = "disconnect"

\* The state is as the last handler found it.
StateUnchanged == connected_users = pre.users /\ chat_room = pre.room

----------------------------------------------------------------------------
\* C1: a signal event from a member of the room, with N other members
\* present, produces exactly N sends of 'signal': one to each other member
\* and none to the sender.
C1_RelayFanOut ==
    (IsSignal /\ ev.sid \in Members(pre.room)) =>
        /\ Len(sent) = Cardinality(Others(pre.room, ev.sid))
        /\ \A t \in Others(pre.room, ev.sid) : Received(t, "signal") = 1
        /\ Received(ev.sid, "signal") = 0

\* C2: every send of a signal event carries the message exactly as the
\* sender submitted it.
C2_RelayOpacity ==
    IsSignal => \A i \in DOMAIN sent :
                    sent[i].event = "signal" /\ sent[i].data = ev.message

C2_Witness ==
    IsSignal /\ Len(sent) >= 2 /\ ev.message.type = "offer"

\* C3: a signal event whose sender is not registered or not a member of the
\* room is dropped: no send, no exception, registry and room unchanged.
C3_UnknownSenderDropped ==
    (IsSignal /\ (ev.sid \notin DOMAIN pre.users
                    \/ ev.sid \notin Members(pre.room))) =>
        /\ sent = << >>
        /\ error = "none"
        /\ StateUnchanged

\* C4: when a connected member c disconnects, each remaining member of the
\* room receives exactly one 'user-left' carrying c, and nobody else
\* receives anything.
C4_UserLeftToRemaining ==
    (IsDisconnect /\ ev.sid \in DOMAIN pre.users
                  /\ ev.sid \in Members(pre.room)) =>
        /\ \A t \in SIDS :
              Received(t, "user-left") =
                  IF t \in Others(pre.room, ev.sid) THEN 1 ELSE 0
        /\ \A i \in DOMAIN sent :
              sent[i].event = "user-left" /\ sent[i].data = [sid |-> ev.sid]

C4_Witness ==
    /\ IsDisconnect
    /\ ev.sid \in DOMAIN pre.users
    /\ Cardinality(Others(pre.room, ev.sid)) >= 2

\* C5: a sid that has disconnected and not connected again is the target of
\* no send: neither of the 'user-left' about itself nor of any later relay
\* or notification.
C5_DisconnectExcludesSelf ==
    \A i \in DOMAIN sent : lifecycle[sent[i].to] # "disconnected"

C5_Witness ==
    /\ IsSignal
    /\ sent # << >>
    /\ \E c \in SIDS : /\ lifecycle[c] = "disconnected"
                        /\ c # ev.sid

\* C6: every sid in the room's member set is a key of connected_users.
C6_ReferentialIntegrity ==
    Members(chat_room) \subseteq DOMAIN connected_users

C6_Witness ==
    IsDisconnect /\ ev.sid \in Members(pre.room) /\ Len(chat_room) >= 1

\* C7: a disconnect for a sid that has already disconnected raises nothing
\* and leaves connected_users and the room as the first disconnect left them.
C7_DuplicateDisconnectNoOp ==
    (IsDisconnect /\ ev.sid \notin DOMAIN pre.users) =>
        error = "none" /\ StateUnchanged

C7_Witness ==
    /\ IsDisconnect
    /\ pre.lifecycle[ev.sid] = "disconnected"
    /\ Len(chat_room) >= 1

\* C8, as stated: a connect for an already registered sid fails with
\* DuplicateConnectionError and leaves registry and room as they were.
C8_DuplicateConnectFails ==
    (IsConnect /\ ev.sid \in DOMAIN pre.users) =>
        error = "DuplicateConnectionError" /\ StateUnchanged

\* C8, amended: a connect for an already registered sid raises nothing and
\* leaves registry and room as they were.
C8_DuplicateConnectHarmless ==
    (IsConnect /\ ev.sid \in DOMAIN pre.users) =>
        error = "none" /\ StateUnchanged

C8_Witness ==
    IsConnect /\ ev.sid \in DOMAIN pre.users /\ Len(chat_room) >= 2

\* C9: a sid whose last connect or disconnect event was a connect is
\* registered, is a member of the room, and is in the target set of a relay
\* from any other sid; also when it had disconnected before.
C9_ConnectedIsEligible ==
    \A c \in SIDS : lifecycle[c] = "connected" =>
        /\ c \in DOMAIN connected_users
        /\ c \in Members(chat_room)
        /\ \A x \in SIDS \ {c} : c \in Range(members_except(chat_room, {x}))
        /\ (IsSignal /\ error = "none" /\ ev.sid # c) =>
               Received(c, "signal") = 1

C9_Witness ==
    IsConnect /\ pre.lifecycle[ev.sid] = "disconnected" /\ Len(chat_room) >= 2

\* C10: joining a sid to the room twice gives the same membership as joining
\* it once, and no sid occurs more than once in the membership.
C10_JoinIdempotent ==
    /\ \A c \in SIDS :
          join_room(join_room(chat_room, c), c) = join_room(chat_room, c)
    /\ \A i, j \in DOMAIN chat_room : chat_room[i] = chat_room[j] => i = j
    /\ (IsConnect /\ ev.sid \in Members(pre.room)) => chat_room = pre.room

C10_Witness ==
    IsConnect /\ ev.sid \in Members(pre.room) /\ Len(chat_room) >= 2

\* The sids the sends of a sequence are addressed to.
Targets(sends) == { sends[i].to : i \in DOMAIN sends }

\* A send names sid as the producer of what it carries.
Tagged(send, sid) ==
    \/ "sender" \in DOMAIN send /\ send.sender = sid
    \/ "sid" \in DOMAIN send.data /\ send.data.sid = sid

\* The sids whose last connect or disconnect event was a connect.
Live == { c \in SIDS : lifecycle[c] = "connected" }

----------------------------------------------------------------------------
\* C11: leaving the room with a sid that is not a member is a no-op: the
\* membership is unchanged and nothing is raised.
C11_LeaveSafety ==
    /\ \A c \in SIDS \ Members(chat_room) : leave_room(chat_room, c) = chat_room
    /\ (IsDisconnect /\ ev.sid \notin Members(pre.room)) =>
           chat_room = pre.room /\ error = "none"

C11_Witness ==
    IsDisconnect /\ ev.sid \notin Members(pre.room) /\ Len(pre.room) >= 2

\* C12: a connect issues no send, neither to the new sid nor to any member.
C12_ConnectSilent ==
    IsConnect => sent = << >>

C12_Witness ==
    IsConnect /\ ev.sid \notin Members(pre.room) /\ Len(pre.room) >= 2

\* C13, as stated: every delivered 'signal' is tagged with the sid of its
\* sender.
C13_SignalTagged ==
    IsSignal => \A i \in DOMAIN sent : Tagged(sent[i], ev.sid)

\* C13, amended: a delivered 'signal' consists of the target, the event name
\* and the submitted message, and names its sender nowhere.
C13_SignalUntagged ==
    IsSignal => \A i \in DOMAIN sent :
                    /\ DOMAIN sent[i] = {"to", "event", "data"}
                    /\ DOMAIN sent[i].data = DOMAIN ev.message
                    /\ ~Tagged(sent[i], ev.sid)

C13_Witness ==
    IsSignal /\ Len(sent) >= 2 /\ ev.message.type = None

\* C14: the targets of a signal event do not depend on its message: the
\* event reaches the same sids as any other message from the same sender
\* would have reached in the same state.
C14_PayloadIndependent ==
    IsSignal => \A m \in Messages :
                    Targets(sent) = Targets(signal_sends(pre.room, ev.sid, m))

C17_NoLostUpdate ==
    /\ Members(chat_room) = Live
    /\ DOMAIN connected_users = Live

C17_Witness ==
    /\ IsDisconnect
    /\ pre.op = "connect"
    /\ pre.sid # ev.sid
    /\ ev.sid \in Members(pre.room)
    /\ Live # {}

\* C18: a disconnect for a sid that is no longer registered broadcasts
\* 'user-left' again, once to each current member of the room; repeated
\* straight after the first it issues the same sends as the first.
C18_RepeatedDisconnectRebroadcasts ==
    /\ (IsDisconnect /\ ev.sid \notin DOMAIN pre.users) =>
          /\ \A t \in SIDS :
                Received(t, "user-left") =
                    IF t \in Members(chat_room) THEN 1 ELSE 0
          /\ \A i \in DOMAIN sent : sent[i].data = [sid |-> ev.sid]
    /\ (IsDisconnect /\ pre.op = "disconnect" /\ pre.sid = ev.sid) =>
          sent = pre.sent

C18_Witness ==
    /\ IsDisconnect
    /\ pre.op = "disconnect"
    /\ pre.sid = ev.sid
    /\ Len(sent) >= 2

\* C19: the keys of connected_users are exactly the members of the room:
\* each sid is in both or in neither.
C19_RegisteredIffMember ==
    /\ DOMAIN connected_users = Members(chat_room)
    /\ \A c \in SIDS :
          \/ c \in DOMAIN connected_users /\ c \in Members(chat_room)
          \/ c \notin DOMAIN connected_users /\ c \notin Members(chat_room)

C19_Witness ==
    /\ IsDisconnect
    /\ ev.sid \in DOMAIN pre.users
    /\ \E c \in SIDS : c \in DOMAIN connected_users
    /\ \E c \in SIDS : c # ev.sid /\ lifecycle[c] = "disconnected"

\* C20: a signal event leaves connected_users and the room as they were; a
\* connect or a disconnect changes at most the entries of its own sid.
C20_Frame ==
    /\ IsSignal => StateUnchanged
    /\ (IsConnect \/ IsDisconnect) =>
          \A c \in SIDS \ {ev.sid} :
              /\ c \in DOMAIN connected_users <=> c \in DOMAIN pre.users
              /\ c \in DOMAIN connected_users =>
                     connected_users[c] = pre.users[c]
              /\ c \in Members(chat_room) <=> c \in Members(pre.room)

C20_Witness ==
    IsSignal /\ error = "none" /\ sent # << >> /\ Len(chat_room) < NumSids

====
